---- MODULE Spec2Model ----
(***************************************************************************)
(* A model of the crush OCPP 1.6 central system: the Acceptor minting      *)
(* session ids, the per-session I/O pair (tcp_read / tcp_write), the       *)
(* Registry (server_loop.rs) and the Dispatcher (controller_loop.rs) with  *)
(* the codec (serde.rs, error.rs).  Tasks communicate over bounded mpsc    *)
(* channels and a one-shot reply channel, which are modelled as sequences  *)
(* and a small record.                                                     *)
(***************************************************************************)
EXTENDS Integers, Sequences, FiniteSets, TLC

(***************************************************************************)
(* Bounds of the model.                                                    *)
(***************************************************************************)
\* number of connections the Acceptor upgrades
MaxConn == 2
\* number of Text frames the peers send in total (each carries a fresh UUID)
MaxMsgs == 2
\* number of Close frames the peers send in total
MaxClose == 2
\* capacity of the Registry's inbound channel (channel(64), scaled down)
ServerCap == 2
\* capacity of a session's mailbox (channel(64), scaled down)
MailboxCap == 1
\* capacity of the Dispatcher's inbound channel (channel(64), scaled down)
ControllerCap == 2
\* number of pieces between the slashes of a request path
MaxSegs == 3

Conn == 1..MaxConn

\* The UUID strings of the frames, in the order the peers send them.
UuidNames == <<"u1", "u2", "u3", "u4", "u5", "u6", "u7", "u8">>

(***************************************************************************)
(* JSON values (serde_json::Value).  An object is abstracted by a label.   *)
(***************************************************************************)
JInt(n) == [t |-> "int", n |-> n, s |-> ""]
JStr(s) == [t |-> "str", n |-> 0, s |-> s]
JObj(s) == [t |-> "obj", n |-> 0, s |-> s]
JNull == [t |-> "null", n |-> 0, s |-> ""]

\* A text frame: a JSON array of values, or something that is no JSON array.
JArray(elems) == [isArray |-> TRUE, elems |-> elems]
NotJson == [isArray |-> FALSE, elems |-> <<>>]

\* Element i of a Vec<Value>, 0-based as in the source (value.get(i)).
Get(v, i) == v[i + 1]
Has(v, i) == i + 1 <= Len(v)

(***************************************************************************)
(* error.rs: OcppResponseError and its conversion into a CallError.        *)
(***************************************************************************)
\* serde_json's own error (the text is no JSON array); not an OcppResponseError
JsonError == [variant |-> "Json", details |-> JNull]
Generic == [variant |-> "Generic", details |-> JNull]
InternalError == [variant |-> "InternalError", details |-> JNull]
InvalidRequestFormat(d) == [variant |-> "InvalidRequestFormat", details |-> d]
UnsupportedMessageType(d) == [variant |-> "UnsupportedMessageType", details |-> d]

FormationViolationDesc ==
    "Payload for Action is syntactically incorrect or not conform the PDU structure for Action"
NotSupportedDesc == "Requested Action is recognized but not supported by the receiver"
InternalErrorDesc ==
    "An internal error occurred and the receiver was not able to process the requested Action successfully"
GenericErrorDesc == "Something unexpected happened."

\* OcppResponseMessage: a typed response or a CallError.
TypedResponse(action, payload) ==
    [kind |-> action, payload |-> payload,
     error_code |-> "", error_description |-> "", error_details |-> JNull]
CallError(code, desc, details) ==
    [kind |-> "CallError", payload |-> JNull,
     error_code |-> code, error_description |-> desc, error_details |-> details]

into_ocpp_response(e) ==
    CASE e.variant = "InvalidRequestFormat" ->
             CallError("FormationViolation", FormationViolationDesc, e.details)
      [] e.variant = "UnsupportedMessageType" ->
             CallError("NotSupported", NotSupportedDesc, e.details)
      [] e.variant = "InternalError" ->
             CallError("InternalError", InternalErrorDesc, JNull)
      [] OTHER ->
             CallError("GenericError", GenericErrorDesc, JNull)

(***************************************************************************)
(* serde.rs: the codec.                                                    *)
(***************************************************************************)
\* serde_json::from_value into the rust_ocpp request types: the payload
\* schemas are an external library, abstracted to the labels they accept.
ValidBootNotificationRequest(v) == v.t = "obj" /\ v.s = "BootNotificationRequest"
ValidStatusNotificationRequest(v) == v.t = "obj" /\ v.s = "StatusNotificationRequest"

DecodeOk(uuid, action, payload) ==
    [ok |-> TRUE, uuid |-> uuid, action |-> action, payload |-> payload,
     error |-> Generic]
DecodeErr(e) ==
    [ok |-> FALSE, uuid |-> "", action |-> "", payload |-> JNull, error |-> e]

\* #[error("...")] of OcppResponseError: the Display text of a variant
Display(e) ==
    CASE e.variant = "InvalidRequestFormat" -> "Invalid request format"
      [] e.variant = "UnsupportedMessageType" -> "Unsupported message type"
      [] e.variant = "InternalError" -> "Internal server error"
      [] OTHER -> "Generic error"

\* D::Error::custom::<OcppResponseError>(e): serde builds its own error from
\* e's Display text (the position serde_json adds is left out); the variant
\* and its details are not carried
custom(e) == [variant |-> "Json", details |-> JStr(Display(e))]

\* impl Deserialize for OcppRequest
deserialize(text) ==
    IF ~text.isArray
    THEN DecodeErr(JsonError)
    ELSE LET value == text.elems IN
      IF Len(value) < 3
      THEN DecodeErr(custom(InvalidRequestFormat(JStr(
               "Invalid message format: expected at least 3 elements."))))
      ELSE IF Get(value, 1).t # "str"
      THEN DecodeErr(custom(InvalidRequestFormat(JStr(
               "Invalid UUID: expected a string but found none."))))
      ELSE IF Get(value, 2).t # "str"
      THEN DecodeErr(custom(InvalidRequestFormat(JStr(
               "Invalid message type: expected a string but found none."))))
      ELSE LET uuid == Get(value, 1).s
               message_type == Get(value, 2).s
           IN CASE message_type = "BootNotification" ->
                     IF ~Has(value, 3)
                     THEN DecodeErr(custom(InvalidRequestFormat(JStr(
                              "Missing payload for BootNotification."))))
                     ELSE IF ~ValidBootNotificationRequest(Get(value, 3))
                     THEN DecodeErr(custom(InvalidRequestFormat(JStr(
                              "Failed to deserialize BootNotificationRequest"))))
                     ELSE DecodeOk(uuid, "BootNotification", Get(value, 3))
                [] message_type = "Heartbeat" ->
                     DecodeOk(uuid, "Heartbeat", JObj("HeartbeatRequest"))
                [] message_type = "StatusNotification" ->
                     IF ~Has(value, 3)
                     THEN DecodeErr(custom(InvalidRequestFormat(JStr(
                              "Missing payload for StatusNotification."))))
                     ELSE IF ~ValidStatusNotificationRequest(Get(value, 3))
                     THEN DecodeErr(custom(InvalidRequestFormat(JStr(
                              "Failed to deserialize StatusNotificationRequest"))))
                     ELSE DecodeOk(uuid, "StatusNotification", Get(value, 3))
                [] OTHER ->
                     DecodeErr(custom(UnsupportedMessageType(JStr(
                         "Unknown message type: '" \o message_type \o "'."))))

\* a serializer that keeps to the length given to serialize_seq: Some(3) for
\* Heartbeat and StatusNotification leaves the payload out
serialize_with_params_len_hint(msg, message_type_id, uuid) ==
    IF msg.kind = "CallError"
    THEN <<JInt(4), JStr(uuid), JStr(msg.error_code),
           JStr(msg.error_description), msg.error_details>>
    ELSE IF msg.kind = "BootNotification"
    THEN <<JInt(message_type_id), JStr(uuid), JStr(msg.kind), msg.payload>>
    ELSE <<JInt(message_type_id), JStr(uuid), JStr(msg.kind)>>

\* a serializer whose CallError arm writes the type id it was passed
serialize_with_params_type_id(msg, message_type_id, uuid) ==
    IF msg.kind = "CallError"
    THEN <<JInt(message_type_id), JStr(uuid), JStr(msg.error_code),
           JStr(msg.error_description), msg.error_details>>
    ELSE <<JInt(message_type_id), JStr(uuid), JStr(msg.kind), msg.payload>>

\* OcppResponseMessage::serialize_with_params: a typed response is written
\* as four elements (the length hint of serialize_seq is not enforced), a
\* CallError as five with the literal 4
serialize_with_params(msg, message_type_id, uuid) ==
    IF msg.kind = "CallError"
    THEN <<JInt(4), JStr(uuid), JStr(msg.error_code),
           JStr(msg.error_description), msg.error_details>>
    ELSE <<JInt(message_type_id), JStr(uuid), JStr(msg.kind), msg.payload>>

(***************************************************************************)
(* State.                                                                  *)
(***************************************************************************)
VARIABLES
    next_id,    \* ServerHandle.next_id (AtomicUsize)
    minted,     \* history: the values next_id() returned, in order
    stage,      \* per connection: "free", "spawned", "handshake", "running", "ended"
    idOf,       \* per connection: ClientInfo.id
    handle,     \* per connection: its ClientHandle: "none", "live", "dropped"
    rd,         \* per connection: tcp_read: "run" or "done"
    wr,         \* per connection: tcp_write: "run", "done" (returned Ok) or
                \* "failed" (returned the write error)
    closes,     \* Close frames read so far, over all connections
    nmsg,       \* Text frames read so far, over all connections
    serverQ,    \* the Registry's inbound channel (ToServer)
    serverPc,   \* run_server: "recv", "await_reply", "ended_err", "panicked"
    serverCur,  \* the ClientMessage the Registry is handling
    clients,    \* Server.clients: a set of [id, c] entries, one per key
    ctrlQ,      \* the Dispatcher's inbound channel (ToController)
    ctrlPc,     \* run_controller: "recv", "handling", "dead"
    ctrlCur,    \* the decoded request whose handler is running
    reply,      \* the one-shot reply channel of the outstanding request
    mailbox,    \* per connection: the channel of ToClient messages
    sent,       \* history, per connection: everything enqueued on its mailbox
    written,    \* history, per connection: frames written to the socket
    recvd,      \* history, per connection: UUIDs of the Text frames read from
                \* the wire, in the order read
    fwd,        \* history: [c, id, uuid] of every Call forwarded as ClientMessage
    processed,  \* history: UUIDs whose ClientMessage the Registry finished with,
                \* having found the session in its map
    undecoded,  \* history: UUIDs of frames the Dispatcher failed to decode
    results,    \* history: [uuid, result] of every handler invocation that returned
    removed,    \* history: ids for which the Registry processed ClientGone
    goneAbsent, \* history: ids whose ClientGone found no entry in the map
    unrouted,   \* history: UUIDs whose ClientMessage found no entry in the map
    panics,     \* history: UUIDs of the requests whose handler panicked
    taken,      \* history: UUIDs of the ClientMessages the Registry received
                \* from its channel, in the order received
    invoked,    \* history: [uuid, text] of every request handed to a handler,
                \* in the order decoded
    replied,    \* history: UUIDs of the replies the Dispatcher handed over,
                \* in the order produced
    httpRequest,  \* the HTTP request handle_request was last called with
    httpResponse  \* the HTTP response handle_request last returned

vars == <<next_id, minted, stage, idOf, handle, rd, wr, closes, nmsg, serverQ,
          serverPc, serverCur, clients, ctrlQ, ctrlPc, ctrlCur, reply, mailbox,
          sent, written, recvd, fwd, processed, undecoded, results, removed,
          goneAbsent, unrouted, panics, taken, invoked, replied,
          httpRequest, httpResponse>>

acceptVars == <<next_id, minted, idOf>>
histVars == <<recvd, fwd, processed, undecoded, results, removed, goneAbsent,
              unrouted, panics>>
ctrlVars == <<ctrlQ, ctrlPc, ctrlCur>>
boxVars == <<mailbox, sent, written>>
ghostVars == <<taken, invoked, replied>>
httpVars == <<httpRequest, httpResponse>>

NoReply == [st |-> "none", val |-> <<>>]

(***************************************************************************)
(* accept_loop.rs: HTTP requests and responses.  A request is what         *)
(* handle_request looks at: whether it is an upgrade request, the pieces   *)
(* of its path between the slashes (after the leading one), its query      *)
(* string, and whether hyper_tungstenite::upgrade succeeds on it.          *)
(***************************************************************************)
Pieces == {"", "ocpp", "cs1"}
Paths == UNION {[1..n -> Pieces] : n \in 1..MaxSegs}
Queries == {"", "x=1"}
Requests ==
    [upgrade : BOOLEAN, path : Paths, query : Queries, handshake : BOOLEAN]

NoHttpRequest == [upgrade |-> FALSE, path |-> <<>>, query |-> "", handshake |-> FALSE]

HttpResponse(status, body) == [status |-> status, body |-> body]
NoHttpResponse == HttpResponse(0, "")
UpgradeRequired ==
    HttpResponse(426, "This endpoint requires a WebSocket upgrade request.")
BadRequest ==
    HttpResponse(400, "Invalid URI format. Expected: /ocpp/{charging_station_name}")
UpgradeFailed ==
    HttpResponse(500, "WebSocket upgrade failed. Please try again.")
SwitchingProtocols == HttpResponse(101, "")

\* .filter(|segment| !segment.is_empty())
RECURSIVE NonEmpty(_)
NonEmpty(segs) ==
    IF segs = <<>> THEN <<>>
    ELSE IF Head(segs) = "" THEN NonEmpty(Tail(segs))
    ELSE <<Head(segs)>> \o NonEmpty(Tail(segs))

\* request.uri().path().split('/'): the pieces of the path; the query string
\* is not part of the path
path_segments(req) == NonEmpty(req.path)

\* extract_name: ["ocpp", name] if !name.is_empty()
extract_name(req) ==
    LET segs == path_segments(req)
    IN IF Len(segs) = 2 /\ segs[1] = "ocpp" /\ segs[2] # ""
       THEN [ok |-> TRUE, name |-> segs[2], response |-> NoHttpResponse]
       ELSE [ok |-> FALSE, name |-> "", response |-> BadRequest]
NoCur == [id |-> 0, uuid |-> ""]
NoRequest == DecodeErr(Generic)

\* ToServer
NewClient(id, c) == [tag |-> "NewClient", id |-> id, c |-> c, text |-> NotJson, uuid |-> ""]
ClientGone(id) == [tag |-> "ClientGone", id |-> id, c |-> 0, text |-> NotJson, uuid |-> ""]
ClientMessage(id, text, u) ==
    [tag |-> "ClientMessage", id |-> id, c |-> 0, text |-> text, uuid |-> u]

Init ==
    /\ next_id = 0
    /\ minted = <<>>
    /\ stage = [c \in Conn |-> "free"]
    /\ idOf = [c \in Conn |-> 0]
    /\ handle = [c \in Conn |-> "none"]
    /\ rd = [c \in Conn |-> "run"]
    /\ wr = [c \in Conn |-> "run"]
    /\ closes = 0
    /\ nmsg = 0
    /\ serverQ = <<>>
    /\ serverPc = "recv"
    /\ serverCur = NoCur
    /\ clients = {}
    /\ ctrlQ = <<>>
    /\ ctrlPc = "recv"
    /\ ctrlCur = NoRequest
    /\ reply = NoReply
    /\ mailbox = [c \in Conn |-> <<>>]
    /\ sent = [c \in Conn |-> <<>>]
    /\ written = [c \in Conn |-> <<>>]
    /\ recvd = [c \in Conn |-> <<>>]
    /\ fwd = {}
    /\ processed = {}
    /\ undecoded = {}
    /\ results = {}
    /\ removed = {}
    /\ goneAbsent = {}
    /\ unrouted = {}
    /\ panics = {}
    /\ taken = <<>>
    /\ invoked = <<>>
    /\ replied = <<>>
    /\ httpRequest = NoHttpRequest
    /\ httpResponse = NoHttpResponse

(***************************************************************************)
(* Helpers on channels and histories.                                      *)
(***************************************************************************)
Append1(f, c, x) == [f EXCEPT ![c] = Append(@, x)]

\* receiver side of the Registry's channel dropped: run_server has returned
ServerStopped == serverPc \in {"ended_err", "panicked"}

\* receiver side of a mailbox dropped: the I/O task ended or tcp_write returned
MailboxClosed(c) == stage[c] = "ended" \/ wr[c] = "done"

\* the I/O task of c is at a point where it runs (not finished)
TaskLive(c) == stage[c] \in {"spawned", "handshake", "running"}

\* a drop that leaves the tasks alone (no abort)
DropHandles_forget(h, cs) == h

\* Dropping a set of ClientHandles: Drop for ClientHandle aborts the task.

DropHandles(h, cs) == [c \in Conn |-> IF c \in cs THEN "dropped" ELSE h[c]]

\* a Server whose map is not dropped with it: only the queued handles are
OwnedByServer_without_map ==
    {serverQ[i].c : i \in {j \in 1..Len(serverQ) : serverQ[j].tag = "NewClient"}}

\* The handles the Registry task owns: the map's and those queued as NewClient.

OwnedByServer ==
    {e.c : e \in clients} \cup
    {serverQ[i].c : i \in {j \in 1..Len(serverQ) : serverQ[j].tag = "NewClient"}}

\* run_server returns (an error) or unwinds (a panic): the Server is dropped,
\* with its map and its receiver.
StopServer(how) ==
    /\ serverPc' = how
    /\ serverCur' = NoCur
    /\ clients' = {}
    /\ serverQ' = <<>>
    /\ handle' = DropHandles(handle, OwnedByServer)
    /\ reply' = NoReply

(***************************************************************************)
(* accept_loop.rs: handle_request, after the three checks passed.          *)
(***************************************************************************)
\* next_id that advances the counter but returns the default id
next_id_default(n) == [ret |-> 0, next |-> n + 1]

\* next_id as a plain load: the counter is returned but not advanced
next_id_no_increment(n) == [ret |-> n, next |-> n]

\* ServerHandle::next_id: fetch_add(1) returns the previous value

next_id_fetch_add(n) == [ret |-> n, next |-> n + 1]

\* the spawned task of handle_request: next_id(), then ClientHandle::spawn
SpawnSession(c) ==
    /\ stage[c] = "free"
    /\ LET r == next_id_fetch_add(next_id) IN
         /\ next_id' = r.next
         /\ minted' = Append(minted, r.ret)
         /\ idOf' = [idOf EXCEPT ![c] = r.ret]
    /\ stage' = [stage EXCEPT ![c] = "spawned"]
    /\ handle' = [handle EXCEPT ![c] = "live"]

\* handle_request on a request that passes the three checks
Accept(c) ==
    /\ SpawnSession(c)
    /\ UNCHANGED <<rd, wr, closes, nmsg, serverQ, serverPc, serverCur, clients,
                   reply>>
    /\ UNCHANGED <<ctrlVars, boxVars, histVars>>
    /\ UNCHANGED <<ghostVars, httpVars>>

\* a check that lets every request pass as an upgrade request
is_upgrade_request_any(req) == TRUE

\* hyper_tungstenite::is_upgrade_request(&request)

is_upgrade_request(req) == req.upgrade

\* handle_request, whole: 426 unless an upgrade request, 400 unless the path
\* names a station, 500 unless the handshake can be started; otherwise the
\* session is spawned and the handshake response returned
HandleRequest(req) ==
    /\ httpRequest' = req
    /\ IF ~is_upgrade_request(req)
       THEN /\ httpResponse' = UpgradeRequired
            /\ UNCHANGED <<acceptVars, stage, handle>>
       ELSE IF ~extract_name(req).ok
       THEN /\ httpResponse' = extract_name(req).response
            /\ UNCHANGED <<acceptVars, stage, handle>>
       ELSE IF ~req.handshake
       THEN /\ httpResponse' = UpgradeFailed
            /\ UNCHANGED <<acceptVars, stage, handle>>
       ELSE /\ httpResponse' = SwitchingProtocols
            /\ \E c \in Conn : SpawnSession(c)
    /\ UNCHANGED <<rd, wr, closes, nmsg, serverQ, serverPc, serverCur, clients,
                   reply>>
    /\ UNCHANGED <<ctrlVars, boxVars, histVars, ghostVars>>

(***************************************************************************)
(* client_loop.rs: the session's I/O task.                                 *)
(***************************************************************************)
\* a channel that puts a new message ahead of the waiting ones
ServerSend_front(q, m) == <<m>> \o q

\* ServerHandle::send: the message is queued behind those already waiting

ServerSend(q, m) == Append(q, m)

\* start_client: the handle arrives on the one-shot and is sent as NewClient
StartClient(c) ==
    /\ stage[c] = "spawned"
    /\ ~ServerStopped
    /\ Len(serverQ) < ServerCap
    /\ serverQ' = ServerSend(serverQ, NewClient(idOf[c], c))
    /\ stage' = [stage EXCEPT ![c] = "handshake"]
    /\ UNCHANGED <<acceptVars, handle, rd, wr, closes, nmsg, serverPc, serverCur,
                   clients, reply>>
    /\ UNCHANGED <<ctrlVars, boxVars, histVars>>
    /\ UNCHANGED <<ghostVars, httpVars>>

\* run_client: client_actor.websocket.await? succeeds; the halves are joined
WebsocketReady(c) ==
    /\ stage[c] = "handshake"
    /\ stage' = [stage EXCEPT ![c] = "running"]
    /\ UNCHANGED <<acceptVars, handle, rd, wr, closes, nmsg, serverQ, serverPc,
                   serverCur, clients, reply>>
    /\ UNCHANGED <<ctrlVars, boxVars, histVars>>
    /\ UNCHANGED <<ghostVars, httpVars>>

\* run_client: client_actor.websocket.await? fails; start_client returns Err
WebsocketFailed(c) ==
    /\ stage[c] = "handshake"
    /\ stage' = [stage EXCEPT ![c] = "ended"]
    /\ UNCHANGED <<acceptVars, handle, rd, wr, closes, nmsg, serverQ, serverPc,
                   serverCur, clients, reply>>
    /\ UNCHANGED <<ctrlVars, boxVars, histVars>>
    /\ UNCHANGED <<ghostVars, httpVars>>

\* The frames a peer may send with UUID u.
PeerTexts(u) ==
    { JArray(<<JInt(2), JStr(u), JStr("Heartbeat"), JObj("{}")>>),
      JArray(<<JInt(2), JStr(u), JStr("Authorize"), JObj("{}")>>),
      JArray(<<JInt(2), JStr(u), JStr("BootNotification")>>),
      JArray(<<JInt(2), JStr(u)>>),
      NotJson }

\* A Call whose UUID is recoverable: length >= 3, type id 2, string UUID
IsCall(text) ==
    /\ text.isArray
    /\ Len(text.elems) >= 3
    /\ Get(text.elems, 0) = JInt(2)
    /\ Get(text.elems, 1).t = "str"

\* tcp_read, Message::Text: forwards ClientMessage(id, text); the send waits
\* while the Registry's channel is full.  (Binary, Ping, Pong and raw frames
\* are only logged and change no state.)
ReadText(c) ==
    /\ stage[c] = "running" /\ rd[c] = "run"
    /\ ~ServerStopped
    /\ Len(serverQ) < ServerCap
    /\ nmsg < MaxMsgs
    /\ \E text \in PeerTexts(UuidNames[nmsg + 1]) :
         LET u == UuidNames[nmsg + 1] IN
         /\ serverQ' = ServerSend(serverQ, ClientMessage(idOf[c], text, u))
         /\ recvd' = Append1(recvd, c, u)
         /\ fwd' = IF IsCall(text)
                   THEN fwd \cup {[c |-> c, id |-> idOf[c], uuid |-> u]}
                   ELSE fwd
    /\ nmsg' = nmsg + 1
    /\ UNCHANGED <<acceptVars, stage, handle, rd, wr, closes, serverPc, serverCur,
                   clients, reply, processed, undecoded, results, removed,
                   goneAbsent, unrouted, panics>>
    /\ UNCHANGED <<ctrlVars, boxVars>>
    /\ UNCHANGED <<ghostVars, httpVars>>

\* tcp_read, Message::Close: forwards ClientGone(id).  The loop does not
\* break: what the transport yields after a Close frame is left open, so the
\* peer may send further frames until the task ends.
ReadClose(c) ==
    /\ stage[c] = "running" /\ rd[c] = "run"
    /\ ~ServerStopped
    /\ Len(serverQ) < ServerCap
    /\ closes < MaxClose
    /\ serverQ' = ServerSend(serverQ, ClientGone(idOf[c]))
    /\ closes' = closes + 1
    /\ UNCHANGED <<acceptVars, stage, handle, rd, wr, nmsg, serverPc, serverCur,
                   clients, reply>>
    /\ UNCHANGED <<ctrlVars, boxVars, histVars>>
    /\ UNCHANGED <<ghostVars, httpVars>>

\* tcp_read: try_next() gives an error or the end of the stream; tcp_read
\* returns Ok(()) and try_join! goes on waiting for tcp_write
ReadEnd(c) ==
    /\ stage[c] = "running" /\ rd[c] = "run"
    /\ rd' = [rd EXCEPT ![c] = "done"]
    /\ stage' = [stage EXCEPT ![c] = IF wr[c] = "done" THEN "ended" ELSE @]
    /\ UNCHANGED <<acceptVars, handle, wr, closes, nmsg, serverQ, serverPc,
                   serverCur, clients, reply>>
    /\ UNCHANGED <<ctrlVars, boxVars, histVars>>
    /\ UNCHANGED <<ghostVars, httpVars>>

\* ServerHandle::send after run_server returned: the assert panics the task
SendToStoppedServer(c) ==
    /\ ServerStopped
    /\ \/ stage[c] = "spawned"
       \/ stage[c] = "running" /\ rd[c] = "run"
    /\ stage' = [stage EXCEPT ![c] = "ended"]
    /\ handle' = [handle EXCEPT ![c] = "dropped"]
    /\ UNCHANGED <<acceptVars, rd, wr, closes, nmsg, serverQ, serverPc, serverCur,
                   clients, reply>>
    /\ UNCHANGED <<ctrlVars, boxVars, histVars>>
    /\ UNCHANGED <<ghostVars, httpVars>>

\* tcp_write: one ToClient::Message is written as one Text frame
WriteOk(c) ==
    /\ stage[c] = "running" /\ wr[c] = "run"
    /\ mailbox[c] # <<>>
    /\ written' = Append1(written, c, Head(mailbox[c]))
    /\ mailbox' = [mailbox EXCEPT ![c] = Tail(@)]
    /\ UNCHANGED <<acceptVars, stage, handle, rd, wr, closes, nmsg, serverQ,
                   serverPc, serverCur, clients, reply, sent>>
    /\ UNCHANGED <<ctrlVars, histVars>>
    /\ UNCHANGED <<ghostVars, httpVars>>

\* tcp_write: write.send fails; try_join! returns the error and drops tcp_read
WriteFail(c) ==
    /\ stage[c] = "running" /\ wr[c] = "run"
    /\ mailbox[c] # <<>>
    /\ mailbox' = [mailbox EXCEPT ![c] = <<>>]
    /\ wr' = [wr EXCEPT ![c] = "failed"]
    /\ stage' = [stage EXCEPT ![c] = "ended"]
    /\ UNCHANGED <<acceptVars, handle, rd, closes, nmsg, serverQ, serverPc,
                   serverCur, clients, reply, sent, written>>
    /\ UNCHANGED <<ctrlVars, histVars>>
    /\ UNCHANGED <<ghostVars, httpVars>>

\* tcp_write: recv() gives None once the handle's Sender is dropped and the
\* mailbox is empty; tcp_write returns Ok(())
WriteDone(c) ==
    /\ stage[c] = "running" /\ wr[c] = "run"
    /\ handle[c] = "dropped"
    /\ mailbox[c] = <<>>
    /\ wr' = [wr EXCEPT ![c] = "done"]
    /\ stage' = [stage EXCEPT ![c] = IF rd[c] = "done" THEN "ended" ELSE @]
    /\ UNCHANGED <<acceptVars, handle, rd, closes, nmsg, serverQ, serverPc,
                   serverCur, clients, reply>>
    /\ UNCHANGED <<ctrlVars, boxVars, histVars>>
    /\ UNCHANGED <<ghostVars, httpVars>>

\* Drop for ClientHandle: client_join.abort() takes effect when the task
\* next yields
Aborted(c) ==
    /\ handle[c] = "dropped"
    /\ TaskLive(c)
    /\ stage' = [stage EXCEPT ![c] = "ended"]
    /\ mailbox' = [mailbox EXCEPT ![c] = <<>>]
    /\ UNCHANGED <<acceptVars, handle, rd, wr, closes, nmsg, serverQ, serverPc,
                   serverCur, clients, reply, sent, written>>
    /\ UNCHANGED <<ctrlVars, histVars>>
    /\ UNCHANGED <<ghostVars, httpVars>>

(***************************************************************************)
(* server_loop.rs: the Registry.                                           *)
(***************************************************************************)
\* a lookup that falls back to any entry when the key is absent
Lookup_any(map, id) == IF {e \in map : e.id = id} = {} THEN map ELSE {e \in map : e.id = id}

\* HashMap::get / contains_key
Lookup(map, id) == {e \in map : e.id = id}

\* HashMap::insert: the entry under the key is replaced
MapInsert(map, id, c) == (map \ Lookup(map, id)) \cup {[id |-> id, c |-> c]}

\* a remove that leaves the entry in place
MapRemove_keep(map, id) == map

\* a remove that empties the map when the key is absent
MapRemove_other(map, id) == IF Lookup(map, id) = {} THEN {} ELSE map \ Lookup(map, id)

\* HashMap::remove

MapRemove(map, id) == map \ Lookup(map, id)

\* a channel whose recv() returns the newest message
RecvIndex_newest(q) == Len(q)

\* which message of the channel recv() returns: the oldest

RecvIndex(q) == 1

Without(q, i) == SubSeq(q, 1, i - 1) \o SubSeq(q, i + 1, Len(q))

\* handle_message, ToServer::NewClient
ServerNewClient ==
    /\ serverPc = "recv" /\ serverQ # <<>>
    /\ LET i == RecvIndex(serverQ)
           msg == serverQ[i]
       IN /\ msg.tag = "NewClient"
          /\ serverQ' = Without(serverQ, i)
          /\ clients' = MapInsert(clients, msg.id, msg.c)
          /\ handle' = DropHandles(handle,
                          {e.c : e \in Lookup(clients, msg.id)} \ {msg.c})
    /\ UNCHANGED <<acceptVars, stage, rd, wr, closes, nmsg, serverPc, serverCur,
                   reply>>
    /\ UNCHANGED <<ctrlVars, boxVars, histVars>>
    /\ UNCHANGED <<ghostVars, httpVars>>

\* handle_message, ToServer::ClientGone
ServerClientGone ==
    /\ serverPc = "recv" /\ serverQ # <<>>
    /\ LET i == RecvIndex(serverQ)
           msg == serverQ[i]
       IN /\ msg.tag = "ClientGone"
          /\ serverQ' = Without(serverQ, i)
          /\ clients' = MapRemove(clients, msg.id)
          /\ handle' = DropHandles(handle, {e.c : e \in clients \ clients'})
          /\ removed' = removed \cup {msg.id}
          /\ goneAbsent' = IF Lookup(clients, msg.id) = {}
                           THEN goneAbsent \cup {msg.id} ELSE goneAbsent
    /\ UNCHANGED <<acceptVars, stage, rd, wr, closes, nmsg, serverPc, serverCur,
                   reply, recvd, fwd, processed, undecoded, results, unrouted,
                   panics>>
    /\ UNCHANGED <<ctrlVars, boxVars>>
    /\ UNCHANGED <<ghostVars, httpVars>>

\* a handle_message that returns to recv() without awaiting the reply
AfterDispatch_no_await == "recv"

\* handle_message: receiver.await? follows the send to the Dispatcher

AfterDispatch == "await_reply"

\* handle_message, ToServer::ClientMessage, up to receiver.await
ServerClientMessage ==
    /\ serverPc = "recv" /\ serverQ # <<>>
    /\ LET i == RecvIndex(serverQ)
           msg == serverQ[i]
       IN /\ msg.tag = "ClientMessage"
          /\ taken' = Append(taken, msg.uuid)
          /\ IF Lookup(clients, msg.id) = {}
             THEN /\ serverQ' = Without(serverQ, i)
                  /\ unrouted' = unrouted \cup {msg.uuid}
                  /\ UNCHANGED <<serverPc, serverCur, clients, handle, reply,
                                 ctrlQ, processed>>
             ELSE IF ctrlPc = "dead"
             THEN \* ControllerHandle::send: "Controller loop has shut down"
                  /\ StopServer("panicked")
                  /\ processed' = processed \cup {msg.uuid}
                  /\ UNCHANGED <<ctrlQ, unrouted>>
             ELSE /\ Len(ctrlQ) < ControllerCap
                  /\ serverQ' = Without(serverQ, i)
                  /\ ctrlQ' = Append(ctrlQ, [text |-> msg.text, uuid |-> msg.uuid])
                  /\ reply' = [st |-> "pending", val |-> <<>>]
                  /\ serverCur' = [id |-> msg.id, uuid |-> msg.uuid]
                  /\ serverPc' = AfterDispatch
                  /\ UNCHANGED <<clients, handle, processed, unrouted>>
    /\ UNCHANGED <<acceptVars, stage, rd, wr, closes, nmsg, ctrlPc, ctrlCur,
                   recvd, fwd, undecoded, results, removed, goneAbsent, panics>>
    /\ UNCHANGED boxVars
    /\ UNCHANGED <<invoked, replied>>
    /\ UNCHANGED httpVars

\* a response enqueued on the mailbox of any session in the map
Target_any(map, id) == IF Lookup(map, id) = {} THEN {} ELSE {e.c : e \in map}

\* the mailbox a response is enqueued on: the handle found under the id
Target(map, id) == {e.c : e \in Lookup(map, id)}

\* a receiver that completes before the Dispatcher has sent the reply
ReplyArrived_early(r) == r.st \in {"pending", "ready"}

\* receiver.await gives Ok(response): the Dispatcher has sent the reply

ReplyArrived(r) == r.st = "ready"

\* handle_message, ToServer::ClientMessage: the reply arrived and is
\* enqueued with ClientHandle::send (which waits for room, and panics on a
\* closed mailbox)
ServerDeliver ==
    /\ serverPc = "await_reply"
    /\ ReplyArrived(reply)
    /\ \E c \in Target(clients, serverCur.id) :
         IF MailboxClosed(c)
         THEN /\ StopServer("panicked")
              /\ UNCHANGED boxVars
         ELSE /\ Len(mailbox[c]) < MailboxCap
              /\ mailbox' = Append1(mailbox, c, reply.val)
              /\ sent' = Append1(sent, c, reply.val)
              /\ serverPc' = "recv"
              /\ serverCur' = NoCur
              /\ reply' = NoReply
              /\ UNCHANGED <<serverQ, clients, handle, written>>
    /\ processed' = processed \cup {serverCur.uuid}
    /\ UNCHANGED <<acceptVars, stage, rd, wr, closes, nmsg, recvd, fwd, undecoded,
                   results, removed, goneAbsent, unrouted, panics>>
    /\ UNCHANGED ctrlVars
    /\ UNCHANGED <<ghostVars, httpVars>>

\* handle_message: receiver.await? fails because the reply sink was dropped;
\* run_server returns the error
ServerReplyDropped ==
    /\ serverPc = "await_reply"
    /\ reply.st = "dropped"
    /\ StopServer("ended_err")
    /\ processed' = processed \cup {serverCur.uuid}
    /\ UNCHANGED <<acceptVars, stage, rd, wr, closes, nmsg, recvd, fwd, undecoded,
                   results, removed, goneAbsent, unrouted, panics>>
    /\ UNCHANGED <<ctrlVars, boxVars>>
    /\ UNCHANGED <<ghostVars, httpVars>>

(***************************************************************************)
(* controller_loop.rs: the Dispatcher.                                     *)
(***************************************************************************)
\* what a handler may return for a request: OcppResult<Response>
HandlerErrors ==
    { Generic, InternalError, InvalidRequestFormat(JStr("handler details")),
      UnsupportedMessageType(JStr("handler details")) }

HandlerResults(action) ==
    {[ok |-> TRUE, response |-> TypedResponse(action, JObj(action \o "Response")),
      error |-> Generic]}
    \cup {[ok |-> FALSE, response |-> TypedResponse(action, JNull), error |-> e] :
            e \in HandlerErrors}

\* Controller::process: the handler's result as an OcppResponseMessage
process(result) ==
    IF result.ok THEN result.response ELSE into_ocpp_response(result.error)

\* The texts a sender may hand to the Dispatcher with UUID u: Calls of the
\* three supported actions with and without a well-formed payload, the same
\* with another first element, and arrays that are malformed in one place.
CodecTexts(u) ==
    { JArray(<<e0, JStr(u), JStr("Heartbeat"), JObj("{}")>>) :
        e0 \in {JInt(2), JInt(3), JInt(4), JStr("2")} }
    \cup
    { JArray(<<JInt(2), JStr(u), JStr("Heartbeat")>>),
      JArray(<<JInt(2), JStr(u), JStr("Heartbeat"), JStr("x")>>),
      JArray(<<JInt(2), JStr(u), JStr("BootNotification"),
               JObj("BootNotificationRequest")>>),
      JArray(<<JInt(3), JStr(u), JStr("BootNotification"),
               JObj("BootNotificationRequest")>>),
      JArray(<<JInt(2), JStr(u), JStr("BootNotification"), JObj("{}")>>),
      JArray(<<JInt(2), JStr(u), JStr("BootNotification")>>),
      JArray(<<JInt(2), JStr(u), JStr("StatusNotification"),
               JObj("StatusNotificationRequest")>>),
      JArray(<<JInt(2), JStr(u), JStr("StatusNotification"), JObj("{}")>>),
      JArray(<<JInt(2), JStr(u), JStr("StatusNotification")>>),
      JArray(<<JInt(2), JStr(u), JStr("Authorize"), JObj("{}")>>),
      JArray(<<JInt(2), JInt(7), JStr("Heartbeat"), JObj("{}")>>),
      JArray(<<JInt(2), JStr(u), JInt(1), JObj("{}")>>),
      JArray(<<JInt(2), JStr(u)>>),
      JArray(<<JInt(2)>>),
      JArray(<<>>),
      NotJson }

\* ControllerHandle::send, by any holder of a ControllerHandle: the message
\* is queued when the channel has room
ControllerSend(text) ==
    /\ ctrlPc # "dead"
    /\ Len(ctrlQ) < ControllerCap
    /\ nmsg < MaxMsgs
    /\ ctrlQ' = Append(ctrlQ, [text |-> text, uuid |-> UuidNames[nmsg + 1]])
    /\ nmsg' = nmsg + 1
    /\ UNCHANGED <<acceptVars, stage, handle, rd, wr, closes, serverQ, serverPc,
                   serverCur, clients, ctrlPc, ctrlCur, reply>>
    /\ UNCHANGED <<boxVars, histVars, ghostVars, httpVars>>

\* a loop that hands each message to a task of its own and receives on
run_controller_spawning(pc) == pc # "dead"

\* run_controller: recv() is reached again only when handle_message returned

run_controller_receives(pc) == pc = "recv"

\* handle_message: serde_json::from_str::<OcppRequest>; on an error the
\* function returns and the reply sink is dropped
ControllerDecode ==
    /\ run_controller_receives(ctrlPc) /\ ctrlQ # <<>>
    /\ LET msg == Head(ctrlQ)
           ocpp_request == deserialize(msg.text)
       IN /\ ctrlQ' = Tail(ctrlQ)
          /\ invoked' = IF ocpp_request.ok
                        THEN Append(invoked, [uuid |-> msg.uuid, text |-> msg.text])
                        ELSE invoked
          /\ IF ocpp_request.ok
             THEN /\ ctrlPc' = "handling"
                  /\ ctrlCur' = ocpp_request
                  /\ UNCHANGED <<reply, undecoded>>
             ELSE /\ reply' = [st |-> "dropped", val |-> <<>>]
                  /\ undecoded' = undecoded \cup {msg.uuid}
                  /\ UNCHANGED <<ctrlPc, ctrlCur>>
    /\ UNCHANGED <<acceptVars, stage, handle, rd, wr, closes, nmsg, serverQ,
                   serverPc, serverCur, clients, recvd, fwd, processed, results,
                   removed, goneAbsent, unrouted, panics>>
    /\ UNCHANGED boxVars
    /\ UNCHANGED <<taken, replied>>
    /\ UNCHANGED httpVars

\* handle_message: the handler returns; the outcome is serialised with the
\* decoded UUID and handed to the reply sink
ControllerReply ==
    /\ ctrlPc = "handling"
    /\ \E result \in HandlerResults(ctrlCur.action) :
         LET response == serialize_with_params(process(result), 3, ctrlCur.uuid)
         IN /\ reply' = [st |-> "ready", val |-> response]
            /\ results' = results \cup {[uuid |-> ctrlCur.uuid, result |-> result]}
    /\ replied' = Append(replied, ctrlCur.uuid)
    /\ ctrlPc' = "recv"
    /\ ctrlCur' = NoRequest
    /\ UNCHANGED <<acceptVars, stage, handle, rd, wr, closes, nmsg, serverQ,
                   serverPc, serverCur, clients, ctrlQ, recvd, fwd, processed,
                   undecoded, removed, goneAbsent, unrouted, panics>>
    /\ UNCHANGED boxVars
    /\ UNCHANGED <<taken, invoked>>
    /\ UNCHANGED httpVars

\* the handler panics: the Dispatcher task unwinds, dropping its receiver
\* and the reply sink
ControllerPanic ==
    /\ ctrlPc = "handling"
    /\ ctrlPc' = "dead"
    /\ ctrlCur' = NoRequest
    /\ ctrlQ' = <<>>
    /\ reply' = [st |-> "dropped", val |-> <<>>]
    /\ panics' = panics \cup {ctrlCur.uuid}
    /\ UNCHANGED <<acceptVars, stage, handle, rd, wr, closes, nmsg, serverQ,
                   serverPc, serverCur, clients, recvd, fwd, processed, undecoded,
                   results, removed, goneAbsent, unrouted>>
    /\ UNCHANGED boxVars
    /\ UNCHANGED <<ghostVars, httpVars>>

(***************************************************************************)
(* The specification.                                                      *)
(***************************************************************************)
Next ==
    \/ \E c \in Conn : Accept(c)
    \/ \E c \in Conn : StartClient(c)
    \/ \E c \in Conn : WebsocketReady(c)
    \/ \E c \in Conn : WebsocketFailed(c)
    \/ \E c \in Conn : ReadText(c)
    \/ \E c \in Conn : ReadClose(c)
    \/ \E c \in Conn : ReadEnd(c)
    \/ \E c \in Conn : SendToStoppedServer(c)
    \/ \E c \in Conn : WriteOk(c)
    \/ \E c \in Conn : WriteFail(c)
    \/ \E c \in Conn : WriteDone(c)
    \/ \E c \in Conn : Aborted(c)
    \/ ServerNewClient
    \/ ServerClientGone
    \/ ServerClientMessage
    \/ ServerDeliver
    \/ ServerReplyDropped
    \/ ControllerDecode
    \/ ControllerReply
    \/ ControllerPanic

Spec == Init /\ [][Next]_vars

\* The tasks are scheduled by the tokio runtime: while the Registry, the
\* Dispatcher (whose handlers are taken to return or panic), a write half
\* (whose peer is taken to accept or refuse a frame) or a pending abort can
\* take a step, one of them eventually does.  Nothing is assumed of what
\* the peers send or of new connections.
Fairness ==
    WF_vars(\/ ServerNewClient \/ ServerClientGone \/ ServerClientMessage
            \/ ServerDeliver \/ ServerReplyDropped
            \/ ControllerDecode \/ ControllerReply \/ ControllerPanic
            \/ \E c \in Conn : WriteOk(c) \/ WriteFail(c) \/ Aborted(c))

FairSpec == Spec /\ Fairness

\* The Dispatcher on its own, fed by any sender.
NextDispatcher ==
    \/ \E text \in CodecTexts(UuidNames[nmsg + 1]) : ControllerSend(text)
    \/ ControllerDecode
    \/ ControllerReply
    \/ ControllerPanic

SpecDispatcher == Init /\ [][NextDispatcher]_vars

\* The Acceptor's request handler on its own, called with any request.
NextAccept == \E req \in Requests : HandleRequest(req)

SpecAccept == Init /\ [][NextAccept]_vars

(***************************************************************************)
(* Properties.                                                             *)
(***************************************************************************)
\* the UUID a response frame carries (element 1)
RespUuid(r) == Get(r, 1).s

\* how many frames of a history carry UUID u
Count(h, u) == Cardinality({i \in 1..Len(h) : RespUuid(h[i]) = u})

\* the position of x in a sequence without repetitions (0 when absent)
Pos(q, x) == IF \E i \in 1..Len(q) : q[i] = x
             THEN CHOOSE i \in 1..Len(q) : q[i] = x
             ELSE 0

\* C1: every Call forwarded by a session and handled by the Registry while
\* the session is in the map gets exactly one response with its UUID on
\* that session's mailbox, and none on any other mailbox.
C1_ExactlyOneResponse ==
    \A f \in fwd :
        /\ \A d \in Conn \ {f.c} : Count(sent[d], f.uuid) = 0
        /\ Count(sent[f.c], f.uuid) <= 1
        /\ f.uuid \in processed => Count(sent[f.c], f.uuid) = 1

C3_RegistrySurvivesDecodeError ==
    (undecoded \cap processed # {}) => ~ServerStopped

\* C4: every id next_id() returns is greater than all ids returned before.
C4_IdsStrictlyIncreasing ==
    \A i, j \in 1..Len(minted) : i < j => minted[i] < minted[j]

\* two connections were given their ids
C4_Witness ==
    /\ Len(minted) >= 2
    /\ \E a, b \in Conn : a # b /\ stage[a] # "free" /\ stage[b] # "free"

\* C5: the end of one session's I/O task never stops the Registry: the
\* Registry does not panic on the closed mailbox of a failed session.
C5_SessionFailureIsolated ==
    (\E a \in Conn : stage[a] = "ended") => serverPc # "panicked"

\* C6: a Call whose decoding failed with a recoverable UUID is answered with
\* a CallError (NotSupported or FormationViolation) carrying that UUID on
\* the originating session's mailbox.
C6_DecodeErrorAnswered ==
    \A f \in fwd :
        f.uuid \in (undecoded \cap processed) =>
            \E i \in 1..Len(sent[f.c]) :
                /\ Len(sent[f.c][i]) = 5
                /\ Get(sent[f.c][i], 0) = JInt(4)
                /\ Get(sent[f.c][i], 1) = JStr(f.uuid)
                /\ Get(sent[f.c][i], 2) \in {JStr("NotSupported"),
                                             JStr("FormationViolation")}

\* the code and description the claim fixes for each error variant
C7_Code(variant) ==
    CASE variant = "InvalidRequestFormat" -> "FormationViolation"
      [] variant = "UnsupportedMessageType" -> "NotSupported"
      [] variant = "InternalError" -> "InternalError"
      [] variant = "Generic" -> "GenericError"

C7_Description(variant) ==
    CASE variant = "InvalidRequestFormat" -> FormationViolationDesc
      [] variant = "UnsupportedMessageType" -> NotSupportedDesc
      [] variant = "InternalError" -> InternalErrorDesc
      [] variant = "Generic" -> GenericErrorDesc

C7_Framed(r, u, variant) ==
    /\ Len(r) = 5
    /\ Get(r, 0) = JInt(4)
    /\ Get(r, 1) = JStr(u)
    /\ Get(r, 2) = JStr(C7_Code(variant))
    /\ Get(r, 3) = JStr(C7_Description(variant))

\* C7: when the handler of a Call with UUID u returned an error, the reply
\* handed over and enqueued is [4, u, code, description, details] with the
\* code and description of the error variant.
C7_HandlerErrorFramed ==
    \A x \in results :
        ~x.result.ok =>
            /\ (reply.st = "ready" /\ RespUuid(reply.val) = x.uuid)
                  => C7_Framed(reply.val, x.uuid, x.result.error.variant)
            /\ \A c \in Conn : \A i \in 1..Len(sent[c]) :
                  RespUuid(sent[c][i]) = x.uuid
                     => C7_Framed(sent[c][i], x.uuid, x.result.error.variant)

\* the replies of a handler that returned InternalError and of one that
\* returned Generic were enqueued on a mailbox
C7_Witness ==
    \E x, y \in results :
        /\ ~x.result.ok /\ x.result.error.variant = "InternalError"
        /\ ~y.result.ok /\ y.result.error.variant = "Generic"
        /\ \E c, d \in Conn : Count(sent[c], x.uuid) = 1 /\ Count(sent[d], y.uuid) = 1

\* C8: when a handler panics on a Call, the Dispatcher keeps running and,
\* once the Registry is done with the Call, the session holds a CallError
\* InternalError with the Call's UUID.
C8_PanicAnswered ==
    /\ ctrlPc # "dead"
    /\ \A f \in fwd :
          f.uuid \in (panics \cap processed) =>
              \E i \in 1..Len(sent[f.c]) :
                  /\ Get(sent[f.c][i], 0) = JInt(4)
                  /\ Get(sent[f.c][i], 1) = JStr(f.uuid)
                  /\ Get(sent[f.c][i], 2) = JStr("InternalError")

\* C9: once ClientGone(id) was processed, no step enqueues anything on the
\* mailbox of the session with that id.
C9_NoEnqueueAfterRemoval ==
    [][\A c \in Conn :
          (stage[c] # "free" /\ idOf[c] \in removed) => sent'[c] = sent[c]]_vars

\* a ClientMessage of a removed session was taken by the Registry
C9_Witness ==
    \E f \in fwd : f.id \in removed /\ f.uuid \in unrouted

\* C10: ClientGone(id) for an id that is not in the map changes neither the
\* map nor any session and leaves the Registry waiting for its next
\* message; an id whose ClientGone was processed is not in the map.
C10_ClientGoneIdempotent ==
    [][/\ (/\ serverPc = "recv" /\ serverQ # <<>>
           /\ Head(serverQ).tag = "ClientGone"
           /\ Lookup(clients, Head(serverQ).id) = {}
           /\ serverQ' = Tail(serverQ))
          => /\ clients' = clients
             /\ handle' = handle
             /\ stage' = stage
             /\ serverPc' = "recv"
             /\ mailbox' = mailbox /\ sent' = sent
       /\ \A id \in removed' : Lookup(clients', id) = {}]_vars

\* a second ClientGone of one session was processed while other sessions
\* were in the map
C10_Witness == goneAbsent # {} /\ clients # {}

\* the NewClient messages waiting in the Registry's channel
QueuedNewClients == {i \in 1..Len(serverQ) : serverQ[i].tag = "NewClient"}

\* C11: the id of a NewClient the Registry is going to process is not a key
\* of the map, was not a key before, and is carried by no other queued
\* NewClient: an insert replaces no entry and each id is inserted at most once.
C11_InsertNeverReplaces ==
    \A i \in QueuedNewClients :
       /\ Lookup(clients, serverQ[i].id) = {}
       /\ serverQ[i].id \notin removed
       /\ \A j \in QueuedNewClients : serverQ[j].id = serverQ[i].id => j = i

\* a NewClient was inserted while another session was in the map
C11_Witness == Cardinality(clients) = 2

\* the Registry was told that session c is gone: a ClientGone with its id is
\* queued or was processed
Informed(c) ==
    \/ idOf[c] \in removed
    \/ \E i \in 1..Len(serverQ) : serverQ[i] = ClientGone(idOf[c])

\* C12: when no Close frame was read and a session's read half has ended or
\* its write half has failed, the whole I/O task is over (the other half was
\* cancelled) and the Registry has been told so with ClientGone, which is
\* what lets it remove the entry.
C12_HalfFailureCleansUp ==
    \A c \in Conn :
       (/\ closes = 0 /\ ~ServerStopped
        /\ stage[c] \in {"running", "ended"}
        /\ (rd[c] = "done" \/ wr[c] = "failed"))
       => (stage[c] = "ended" /\ Informed(c))

\* the read half of session c has sent ClientGone: it is queued or processed
GoneSent(c) ==
    /\ stage[c] # "free"
    /\ \/ idOf[c] \in removed
       \/ \E i \in 1..Len(serverQ) : serverQ[i] = ClientGone(idOf[c])

\* the session is over: no entry in the map, no I/O task
SessionOver(c) == stage[c] = "ended" /\ Lookup(clients, idOf[c]) = {}

\* C13: after the read half sent ClientGone(id) for a Close frame the session
\* ends.  Processing the ClientGone takes the entry out of the map and drops
\* the handle; from some point on every session whose ClientGone is queued or
\* processed has no entry and no I/O task; and an ended task forwards no
\* further frame.
C13_CloseEndsSession ==
    /\ [](\A c \in Conn :
            (stage[c] # "free" /\ idOf[c] \in removed)
               => (Lookup(clients, idOf[c]) = {} /\ handle[c] = "dropped"))
    /\ <>[](\A c \in Conn : GoneSent(c) => SessionOver(c))
    /\ [][\A c \in Conn : stage[c] = "ended" => recvd'[c] = recvd[c]]_vars

\* a Close frame was read and processed, and the session's task has ended
\* by the abort
C13_Witness ==
    \E c \in Conn :
       /\ stage[c] = "ended" /\ idOf[c] \in removed
       /\ rd[c] = "run" /\ wr[c] = "run"

\* the mailbox of c takes no further response: it is full or its receiver
\* is gone
CannotEnqueue(c) == MailboxClosed(c) \/ Len(mailbox[c]) >= MailboxCap

\* C14: when the Registry holds a reply for a session whose mailbox is full
\* or closed, its next step drops that session from the map and leaves the
\* Registry waiting for its next message.
C14_UnsendableDropsSession ==
    [][(/\ serverPc = "await_reply" /\ reply.st = "ready"
        /\ serverPc' # serverPc
        /\ \E c \in Target(clients, serverCur.id) : CannotEnqueue(c))
       => (serverPc' = "recv" /\ Lookup(clients', serverCur.id) = {})]_vars

\* handler invocations that were started and have neither returned nor
\* panicked
InProgress == Len(invoked) - Len(replied) - Cardinality(panics)

\* C15: at most one handler invocation is in progress, and one is exactly
\* while the Dispatcher is inside handle_message; the replies handed over are,
\* in order, the requests handed to handlers; and the Dispatcher takes the
\* next message from its channel only when no invocation is in progress.
C15_OneHandlerAtATime ==
    /\ [](/\ InProgress \in {0, 1}
          /\ InProgress = 1 <=> ctrlPc = "handling"
          /\ Len(replied) <= Len(invoked)
          /\ \A i \in 1..Len(replied) : replied[i] = invoked[i].uuid)
    /\ [][(ctrlQ # <<>> /\ ctrlQ' = Tail(ctrlQ) /\ ctrlPc' # "dead")
             => InProgress = 0]_vars

\* a message waits in the Dispatcher's channel while a handler runs
C15_Witness == ctrlPc = "handling" /\ InProgress = 1 /\ ctrlQ # <<>>

IsClientMessage(m) == m.tag = "ClientMessage"

\* the UUIDs of the ClientMessages waiting in the Registry's channel, in order
QueuedUuids ==
    LET q == SelectSeq(serverQ, IsClientMessage)
    IN [i \in 1..Len(q) |-> q[i].uuid]

\* C16: while a handler invocation is in progress the Registry waits for its
\* reply and takes nothing from its channel; the channel never holds more
\* than its capacity, and while it is full no read half forwards a frame;
\* the frames forwarded so far are, in the order forwarded, those the
\* Registry has taken followed by those still queued.
C16_Backpressure ==
    /\ [](/\ ctrlPc = "handling" => (serverPc = "await_reply" /\ reply.st = "pending")
          /\ Len(serverQ) <= ServerCap
          /\ ~ServerStopped => taken \o QueuedUuids = SubSeq(UuidNames, 1, nmsg))
    /\ [][/\ ctrlPc = "handling" =>
               (taken' = taken /\ clients' = clients /\ Len(serverQ') >= Len(serverQ))
          /\ Len(serverQ) = ServerCap =>
               (recvd' = recvd /\ nmsg' = nmsg /\ closes' = closes)]_vars

\* a handler runs while the Registry's channel is full and holds a
\* forwarded frame
C16_Witness ==
    /\ ctrlPc = "handling"
    /\ Len(serverQ) = ServerCap
    /\ QueuedUuids # <<>>

\* C17: with the Acceptor bound (it accepts connections throughout), the
\* Registry task never ends, whatever the sessions send and however handlers
\* and session I/O fail: Crush::run, which awaits that task, does not
\* complete.
C17_RunNeverCompletes == serverPc \in {"recv", "await_reply"}

\* the I/O task of c has been started on its socket and has not ended
SessionActive(c) == stage[c] \in {"handshake", "running"}

\* C18: once the Registry task has stopped its map is gone and the handle of
\* every session it held is dropped, which aborts the session's I/O task;
\* every such task ends, and no frame is forwarded after the stop.
C18_ShutdownAbortsSessions ==
    /\ [](ServerStopped =>
            /\ clients = {}
            /\ \A c \in Conn : SessionActive(c) => handle[c] = "dropped")
    /\ ServerStopped ~> (\A c \in Conn : ~SessionActive(c))
    /\ [][ServerStopped => (recvd' = recvd /\ closes' = closes)]_vars

\* the Registry stopped while two sessions were active, and both have ended
C18_Witness ==
    /\ ServerStopped
    /\ \A c \in Conn :
          /\ stage[c] = "ended" /\ handle[c] = "dropped"
          /\ idOf[c] \notin removed
          /\ rd[c] = "run" /\ wr[c] = "run"

\* C19: a request is handed to a handler only if element 0 of its array is
\* the integer 2; every other first element makes decode fail.
C19_TypeIdChecked ==
    \A i \in 1..Len(invoked) : Get(invoked[i].text.elems, 0) = JInt(2)

\* the request path is /ocpp/{name}: two non-empty segments, the first ocpp
\* (empty pieces, as of a trailing slash, not counted)
WellFormedPath(req) ==
    LET segs == NonEmpty(req.path)
    IN Len(segs) = 2 /\ segs[1] = "ocpp"

\* C20: the upgrade is admitted only for a request without a query string
\* whose path is /ocpp/{name}; an upgrade request with a query string, with
\* more or fewer segments or with another first segment is answered 400 with
\* the invalid-URI body.
C20_PathAdmission ==
    /\ httpResponse = SwitchingProtocols
          => (WellFormedPath(httpRequest) /\ httpRequest.query = "")
    /\ (httpRequest.upgrade
        /\ (~WellFormedPath(httpRequest) \/ httpRequest.query # ""))
          => httpResponse = BadRequest

\* the variant a decode error stands for, told by its message
ErrorClass(e) ==
    CASE e.details = JStr(Display(InvalidRequestFormat(JNull))) -> "InvalidRequestFormat"
      [] e.details = JStr(Display(UnsupportedMessageType(JNull))) -> "UnsupportedMessageType"
      [] OTHER -> "other"

\* the error names the action it rejects
NamesAction(e, action) ==
    e.details = JStr("Unknown message type: '" \o action \o "'.")

\* what decode is to return for a text that is a JSON array
Classified(text) ==
    LET v == text.elems
        r == deserialize(text)
    IN IF Len(v) < 3 \/ Get(v, 1).t # "str" \/ Get(v, 2).t # "str"
       THEN ~r.ok /\ ErrorClass(r.error) = "InvalidRequestFormat"
       ELSE LET action == Get(v, 2).s IN
         CASE action = "Heartbeat" ->
                r.ok /\ r.action = "Heartbeat" /\ r.uuid = Get(v, 1).s
           [] action = "BootNotification" ->
                IF Has(v, 3) /\ ValidBootNotificationRequest(Get(v, 3))
                THEN r.ok /\ r.action = action
                ELSE ~r.ok /\ ErrorClass(r.error) = "InvalidRequestFormat"
           [] action = "StatusNotification" ->
                IF Has(v, 3) /\ ValidStatusNotificationRequest(Get(v, 3))
                THEN r.ok /\ r.action = action
                ELSE ~r.ok /\ ErrorClass(r.error) = "InvalidRequestFormat"
           [] OTHER ->
                /\ ~r.ok
                /\ ErrorClass(r.error) = "UnsupportedMessageType"
                /\ NamesAction(r.error, action)

\* C21: decode classifies every array handed to the Dispatcher: too short or
\* a non-string element 1 or 2 gives InvalidRequestFormat; Heartbeat decodes
\* with or without element 3; BootNotification and StatusNotification without
\* a valid element 3 give InvalidRequestFormat; any other action gives
\* UnsupportedMessageType, and the error names the action.
C21_DecodeClassifies ==
    \A i \in 1..Len(ctrlQ) : ctrlQ[i].text.isArray => Classified(ctrlQ[i].text)

\* the request whose reply was handed over last, and what its handler returned
LastReplied == invoked[Len(replied)]
LastResult == (CHOOSE x \in results : x.uuid = replied[Len(replied)]).result

\* C22: the reply handed over for a request with UUID u is, when the handler
\* returned a response, the four elements [3, u, action, payload] with the
\* action of the request and the payload returned, and when it returned an
\* error the five elements [4, u, code, description, details] of that error.
C22_EncodeShape ==
    reply.st = "ready" =>
       LET u == replied[Len(replied)]
           r == LastResult
       IN IF r.ok
          THEN /\ Len(reply.val) = 4
               /\ Get(reply.val, 0) = JInt(3)
               /\ Get(reply.val, 1) = JStr(u)
               /\ Get(reply.val, 2) = JStr(deserialize(LastReplied.text).action)
               /\ Get(reply.val, 3) = r.response.payload
          ELSE /\ Len(reply.val) = 5
               /\ Get(reply.val, 0) = JInt(4)
               /\ Get(reply.val, 1) = JStr(u)
               /\ Get(reply.val, 2).t = "str" /\ Get(reply.val, 3).t = "str"
               /\ <<Get(reply.val, 2).s, Get(reply.val, 3).s, Get(reply.val, 4)>> \in
                    { <<"FormationViolation", FormationViolationDesc, r.error.details>>,
                      <<"NotSupported", NotSupportedDesc, r.error.details>>,
                      <<"InternalError", InternalErrorDesc, JNull>>,
                      <<"GenericError", GenericErrorDesc, JNull>> }

\* a StatusNotification response was encoded after an earlier reply
C22_Witness ==
    /\ reply.st = "ready" /\ Len(replied) = 2
    /\ Len(reply.val) = 4
    /\ Get(reply.val, 2) = JStr("StatusNotification")

\* the step minted no id, spawned no session and left the Registry alone
NothingSpawned ==
    /\ next_id' = next_id /\ minted' = minted
    /\ stage' = stage /\ handle' = handle
    /\ serverQ' = serverQ /\ clients' = clients

\* the step minted exactly one id and spawned exactly one session with it
OneSpawned ==
    /\ next_id' = next_id + 1
    /\ minted' = Append(minted, next_id)
    /\ \E c \in Conn :
          /\ stage[c] = "free" /\ stage'[c] = "spawned" /\ idOf'[c] = next_id
          /\ \A d \in Conn \ {c} : stage'[d] = stage[d] /\ idOf'[d] = idOf[d]
    /\ serverQ' = serverQ /\ clients' = clients

\* C23: handle_request answers a request that is no upgrade request with 426
\* whatever its path; otherwise a path other than /ocpp/{name} with 400;
\* otherwise a handshake that cannot be started with 500; in these three
\* cases no id is minted and nothing changes.  Only a request that passes
\* all three is upgraded, and exactly one id is minted and one session
\* spawned for it.
C23_DecisionOrder ==
    [][LET req == httpRequest' IN
       IF ~req.upgrade
       THEN httpResponse' = UpgradeRequired /\ NothingSpawned
       ELSE IF ~WellFormedPath(req)
       THEN httpResponse' = BadRequest /\ NothingSpawned
       ELSE IF ~req.handshake
       THEN httpResponse' = UpgradeFailed /\ NothingSpawned
       ELSE httpResponse' = SwitchingProtocols /\ OneSpawned]_vars

\* after one request was admitted, a request failing the handshake was
\* answered 500 and the counter stayed at one
C23_Witness ==
    /\ httpResponse = UpgradeFailed
    /\ minted = <<0>> /\ next_id = 1

\* the Registry takes the message at the head of its channel in this step
RegistryTakesHead ==
    /\ serverPc = "recv" /\ serverQ # <<>>
    /\ Len(serverQ') < Len(serverQ)

\* C24: in the Registry's channel no ClientMessage or ClientGone of an id is
\* ahead of the NewClient of that id, and a message of a session is queued
\* only after its NewClient was sent; so whenever the Registry takes a
\* ClientMessage or ClientGone whose id is not in its map, the id has been
\* in the map and was removed.
C24_NewClientFirst ==
    /\ [](\A i \in 1..Len(serverQ) :
            serverQ[i].tag # "NewClient" =>
               /\ \A j \in 1..Len(serverQ) :
                     (serverQ[j].tag = "NewClient" /\ serverQ[j].id = serverQ[i].id)
                        => j < i
               /\ \E c \in Conn :
                     idOf[c] = serverQ[i].id /\ stage[c] \in {"running", "ended"})
    /\ [][(RegistryTakesHead /\ Head(serverQ).tag # "NewClient")
             => \/ Lookup(clients, Head(serverQ).id) # {}
                \/ Head(serverQ).id \in removed]_vars

\* a ClientMessage waits in the channel behind the NewClient of its session
C24_Witness ==
    \E i, j \in 1..Len(serverQ) :
       /\ i < j
       /\ serverQ[i].tag = "NewClient" /\ serverQ[j].tag = "ClientMessage"
       /\ serverQ[i].id = serverQ[j].id

\* requests the Dispatcher holds: queued, or in the hands of a handler
AtDispatcher == Len(ctrlQ) + (IF ctrlPc = "handling" THEN 1 ELSE 0)

\* C25: the Dispatcher holds at most one request, its channel at most one
\* Message, and while it holds one the Registry is waiting for that reply;
\* the Registry takes a message from its channel only when nothing is
\* outstanding and the reply to every request it sent has been enqueued on a
\* session's mailbox (a dropped reply sink having ended the Registry).
C25_OneOutstanding ==
    /\ [](/\ Len(ctrlQ) <= 1
          /\ AtDispatcher <= 1
          /\ AtDispatcher = 1 =>
                (serverPc = "await_reply" /\ reply.st = "pending"))
    /\ [][RegistryTakesHead =>
             /\ AtDispatcher = 0 /\ reply.st = "none"
             /\ \A u \in processed : \E c \in Conn : Count(sent[c], u) = 1]_vars

\* the Registry takes a message after an earlier request was answered
C25_Witness ==
    /\ serverPc = "await_reply" /\ AtDispatcher = 1
    /\ processed # {}
    /\ \A u \in processed : \E c \in Conn : Count(sent[c], u) = 1

\* C26: when the Registry takes a ClientMessage whose id is not a key of its
\* map, the step sends nothing to the Dispatcher, starts no handler, writes
\* no mailbox, leaves the map and every handle as they are, and the Registry
\* waits for its next message.
C26_UnknownIdIgnored ==
    [][(/\ RegistryTakesHead
        /\ Head(serverQ).tag = "ClientMessage"
        /\ \A e \in clients : e.id # Head(serverQ).id)
       => /\ serverQ' = Tail(serverQ)
          /\ ctrlQ' = ctrlQ /\ ctrlPc' = ctrlPc /\ ctrlCur' = ctrlCur
          /\ invoked' = invoked /\ reply' = reply
          /\ mailbox' = mailbox /\ sent' = sent /\ written' = written
          /\ clients' = clients /\ handle' = handle
          /\ serverPc' = "recv"]_vars

\* a ClientMessage of an id not in the map was taken while another session
\* was in the map, and no handler has run
C26_Witness ==
    /\ unrouted # {} /\ clients # {}
    /\ invoked = <<>>
    /\ \A c \in Conn : sent[c] = <<>>

\* every handler invoked so far has returned
HandlersReturn == panics = {}

\* every text received so far decodes: those the Dispatcher has met and
\* those still queued at the Registry
TextsDecode ==
    /\ undecoded = {}
    /\ \A i \in 1..Len(serverQ) :
          serverQ[i].tag = "ClientMessage" => deserialize(serverQ[i].text).ok

\* every peer has accepted the frames written to it
PeersAccept == \A c \in Conn : wr[c] # "failed"

\* the Registry waits in recv() for its next ToServer message
RegistryWaiting == serverPc = "recv"

\* the response to the forwarded Call f was written to the socket of f's session
WrittenBack(f) == Count(written[f.c], f.uuid) = 1

\* no response to a forwarded Call is written to another session's socket
NotWrittenElsewhere ==
    \A f \in fwd : \A d \in Conn \ {f.c} : Count(written[d], f.uuid) = 0

\* the statement of C27 as written: every Call of a session that was in the
\* map when the Registry took the Call is eventually written back
C27_AsStated ==
    [](HandlersReturn /\ TextsDecode /\ PeersAccept)
       => <>[](/\ RegistryWaiting
               /\ \A f \in fwd : f.uuid \notin unrouted => WrittenBack(f))

\* C27: while every handler returns, every received text decodes and every
\* peer accepts the frames written to it, under weak fairness of the
\* Registry, the Dispatcher and the session halves the Registry always comes
\* back to waiting for its next message, and the response to every Call
\* forwarded by a session that is never removed from the map is eventually
\* written to that session's socket and to no other.  (The response to a
\* Call whose session is removed afterwards may be discarded with the
\* mailbox when the abort takes effect.)
C27_NoDeadlock ==
    /\ []NotWrittenElsewhere
    /\ [](HandlersReturn /\ TextsDecode /\ PeersAccept)
          => <>[](/\ RegistryWaiting
                  /\ \A f \in fwd : f.id \notin removed => WrittenBack(f))

\* two sessions forwarded a Call each; one stayed registered and its response
\* was written, the other was removed and ended with its response enqueued
\* but not written
C27_Witness ==
    /\ HandlersReturn /\ TextsDecode /\ PeersAccept /\ RegistryWaiting
    /\ \E f \in fwd : f.id \notin removed /\ WrittenBack(f)
    /\ \E g \in fwd :
          /\ g.id \in removed /\ stage[g.c] = "ended"
          /\ Count(sent[g.c], g.uuid) = 1 /\ Count(written[g.c], g.uuid) = 0

====
